---- MODULE Spec2Model ----
(***************************************************************************)
(* A model of ncspot's ScrobblerManager (src/src/scrobbler.rs): the        *)
(* Last.fm authentication done at construction (new, set_lastfm) and the   *)
(* dispatch of player events to the Discord presence client and the        *)
(* Last.fm scrobbler (update_scrobbler).                                   *)
(*                                                                         *)
(* Rust's Option<T> is a sequence of at most one element: None is <<>>,    *)
(* Some(x) is <<x>>.  A Rust String is a sequence of text pieces, so that  *)
(* concatenation is \o and join(", ") interleaves the separator.  Every    *)
(* .expect() of the source is a panic: the call that fails is still        *)
(* recorded, the operation ends with outcome "panicked" and the process    *)
(* is gone until it is started again.                                      *)
(***************************************************************************)
EXTENDS Integers, Sequences, FiniteSets, TLC

VARIABLES
    cfg_values,   \* self.cfg.values(): the settings
    cfg_state,    \* self.cfg.state(): the persisted Last.fm session
    pc,           \* "down" (no manager), "running" (new returned), "panicked"
    scrobbler,    \* self.scrobbler: Option<Scrobbler>
    last,         \* the operation that ran last, with its arguments and outcome
    calls,        \* the connector calls that operation issued, in order
    pw_session    \* history: Some(u) once a password login for u was stored,
                  \* None again when the configured username changes

vars == <<cfg_values, cfg_state, pc, scrobbler, last, calls, pw_session>>

----------------------------------------------------------------------------
(* Option<T> *)

None == <<>>

Some(x) == <<x>>

IsSome(o) == o # <<>>

Unwrap(o) == o[1]

\* Option::unwrap_or
UnwrapOr(o, d) == IF o = <<>> THEN d ELSE o[1]

Opt(S) == {None} \cup {Some(x) : x \in S}

----------------------------------------------------------------------------
(* Bounds and the values the inputs are drawn from *)

\* progress.as_secs() ranges over 0..MaxProgress
MaxProgress == 1

\* SystemTime::now() in seconds since the epoch ranges over 0..MaxNow
MaxNow == 1

\* u64 arithmetic wraps modulo 2^64; the model keeps the wrap and scales the
\* width down to 2^10, TLC's integers being 32 bits wide.
U64_MODULUS == 1024

Usernames == {"alice", "bob"}

\* session keys the Last.fm service may return
SessionKeys == {"sk1", "sk2"}

\* the configured templates tried besides the defaults
CUSTOM_FORMAT_DETAILS == <<"%title", " by ", "%artists">>

CUSTOM_FORMAT_STATE == <<"on ", "%album">>

\* config::Scrobbling, every field an Option as in the unwrap_or literal
ScrobblingCfgs ==
    [ enabled : Opt(BOOLEAN),
      discord_enabled : Opt(BOOLEAN),
      lastfm_api_key : Opt({"key"}),
      lastfm_api_secret : Opt({"secret"}),
      lastfm_username : Opt(Usernames),
      lastfm_password : Opt({"pw"}),
      discord_format_details : Opt({CUSTOM_FORMAT_DETAILS}),
      discord_format_state : Opt({CUSTOM_FORMAT_STATE}) ]

ConfigValues == [ scrobbling : Opt(ScrobblingCfgs) ]

\* model::track::Track, the fields the manager reads
Tracks ==
    { [ title |-> "Song", artists |-> <<"Ann", "Ben">>,
        album |-> Some("LP"), cover_url |-> Some("https://cover") ],
      [ title |-> "Song", artists |-> <<>>,
        album |-> None, cover_url |-> None ],
      [ title |-> "Song", artists |-> <<"Ann">>,
        album |-> None, cover_url |-> Some("https://cover") ],
      [ title |-> "Song", artists |-> <<>>,
        album |-> Some("LP"), cover_url |-> None ] }

\* model::playable::Playable: a track, or another variant
Playables == {<<"Track", t>> : t \in Tracks} \cup {<<"Episode">>}

\* spotify::PlayerEvent; the payload of Playing and Paused is never read
PlayerEvents == {"Playing", "Paused", "Stopped", "FinishedTrack"}

----------------------------------------------------------------------------
(* The constants of the source *)

DISCORD_PLAYING == <<"Playing">>

DISCORD_PAUSED == <<"Paused">>

DISCORD_IMAGE_PLAY == <<"playing">>

DISCORD_IMAGE_PAUSE == <<"pause">>

DISCORD_IMAGE_LOGO == <<"logo">>

DEFAULT_FORMAT_DETAILS == <<"%artists", " / ", "%album">>

DEFAULT_FORMAT_STATE == <<"%title">>

UNKNOWN_ARTIST == "Unknown Artist"

UNKNOWN_ALBUM == "Unknown Album"

----------------------------------------------------------------------------
(* Strings *)

\* [String]::join(sep)
RECURSIVE Join(_, _)
Join(strs, sep) ==
    IF Len(strs) = 0 THEN <<>>
    ELSE IF Len(strs) = 1 THEN <<strs[1]>>
    ELSE <<strs[1], sep>> \o Join(Tail(strs), sep)

\* what one piece of a template renders to for a track
FormatPiece(track, piece) ==
    CASE piece = "%artists" -> Join(track.artists, ", ")
      [] piece = "%title"   -> <<track.title>>
      [] piece = "%album"   -> IF IsSome(track.album) THEN <<Unwrap(track.album)>> ELSE <<>>
      [] OTHER              -> <<piece>>

\* Playable::format(&Playable::Track(track), formatting, library)
RECURSIVE Format(_, _)
Format(track, formatting) ==
    IF formatting = <<>> THEN <<>>
    ELSE FormatPiece(track, Head(formatting)) \o Format(track, Tail(formatting))

----------------------------------------------------------------------------
(* Connector calls and the way an operation ends *)

\* one call on a connector: its receiver, its name, its arguments, whether it
\* succeeded
Call(conn, fn, args, ok) == [conn |-> conn, fn |-> fn, args |-> args, ok |-> ok]

\* the operation ran to its end having issued cs
Returned(cs) == [calls |-> cs, outcome |-> "returned"]

\* the operation panicked (an .expect() on an Err, an arithmetic overflow
\* check) having issued cs
Panicked(cs) == [calls |-> cs, outcome |-> "panicked"]

\* a call whose Result goes through .expect(): Ok returns, Err panics
Expect(conn, fn, args) ==
    { Returned(<<Call(conn, fn, args, TRUE)>>),
      Panicked(<<Call(conn, fn, args, FALSE)>>) }

----------------------------------------------------------------------------
(* ScrobblerManager::set_lastfm *)

NO_SESSION == [lastfm_session_key |-> None, lastfm_session_user |-> None]

\* a variant of has_api_credentials that forgets the API secret
has_api_credentials_key_only(values) ==
    /\ IsSome(values.scrobbling)
    /\ IsSome(Unwrap(values.scrobbling).lastfm_api_key)

\* a variant of has_api_credentials that looks at the section alone
has_api_credentials_section_only(values) ==
    IsSome(values.scrobbling)

\* lines 45-46: the scrobbling section with both API credentials
has_api_credentials(values) ==
    /\ IsSome(values.scrobbling)
    /\ IsSome(Unwrap(values.scrobbling).lastfm_api_key)
    /\ IsSome(Unwrap(values.scrobbling).lastfm_api_secret)

\* line 49: both login credentials
has_login(scrobbling) ==
    /\ IsSome(scrobbling.lastfm_username)
    /\ IsSome(scrobbling.lastfm_password)

\* a variant of session_matches that forgets to compare the stored user
session_matches_any_user(st, username) ==
    /\ IsSome(st.lastfm_session_key)
    /\ IsSome(st.lastfm_session_user)

\* lines 50-51: a stored session key and user, the user being the configured one
session_matches(st, username) ==
    /\ IsSome(st.lastfm_session_key)
    /\ IsSome(st.lastfm_session_user)
    /\ Unwrap(st.lastfm_session_user) = username

\* lines 52-55: authenticate_with_session_key returns nothing and cannot fail
login_with_session(st) ==
    [ scrobbler |-> Some([session_key |-> Unwrap(st.lastfm_session_key)]),
      state |-> st,
      calls |-> <<Call("lastfm", "authenticate_with_session_key",
                       <<Unwrap(st.lastfm_session_key)>>, TRUE)>>,
      outcome |-> "returned" ]

\* a variant of store_session that stores the username and forgets the key
store_session_user_only(st, key, username) ==
    [st EXCEPT !.lastfm_session_user = Some(username)]

\* a variant of store_session that stores the key and forgets the username
store_session_key_only(st, key, username) ==
    [st EXCEPT !.lastfm_session_key = Some(key)]

\* lines 62-65: with_state_mut stores the returned key and the username
store_session(st, key, username) ==
    [st EXCEPT !.lastfm_session_key = Some(key),
               !.lastfm_session_user = Some(username)]

\* lines 58-66: authenticate_with_password(..).expect(..), then the session is
\* stored; on Err the expect panics before anything is stored
login_with_password(st, scrob, username, password) ==
    { [ scrobbler |-> Some([session_key |-> key]),
        state |-> store_session(st, key, username),
        calls |-> <<Call("lastfm", "authenticate_with_password",
                         <<username, password>>, TRUE)>>,
        outcome |-> "returned" ] : key \in SessionKeys }
    \cup
    { [ scrobbler |-> scrob,
        state |-> st,
        calls |-> <<Call("lastfm", "authenticate_with_password",
                         <<username, password>>, FALSE)>>,
        outcome |-> "panicked" ] }

\* the ways one run of set_lastfm can end: the scrobbler field, the persisted
\* state, the calls issued and the outcome
set_lastfm(values, st, scrob) ==
    LET untouched == { [ scrobbler |-> scrob, state |-> st,
                         calls |-> <<>>, outcome |-> "returned" ] }
    IN  IF ~has_api_credentials(values) THEN untouched
        ELSE LET scrobbling == Unwrap(values.scrobbling)
             IN  IF ~has_login(scrobbling) THEN untouched
                 ELSE IF session_matches(st, Unwrap(scrobbling.lastfm_username))
                      THEN {login_with_session(st)}
                      ELSE login_with_password(st, scrob,
                               Unwrap(scrobbling.lastfm_username),
                               Unwrap(scrobbling.lastfm_password))

\* the username of a successful password login among the calls, if any
password_login(cs) ==
    IF \E i \in 1..Len(cs) : cs[i].fn = "authenticate_with_password" /\ cs[i].ok
    THEN Some((CHOOSE c \in {cs[i] : i \in 1..Len(cs)} :
                  c.fn = "authenticate_with_password").args[1])
    ELSE None

----------------------------------------------------------------------------
(* ScrobblerManager::update_scrobbler *)

\* lines 86-95: the settings used when the scrobbling section is absent
DEFAULT_SCROBBLING ==
    [ enabled |-> Some(FALSE),
      discord_enabled |-> Some(TRUE),
      lastfm_api_key |-> None,
      lastfm_api_secret |-> None,
      lastfm_username |-> None,
      lastfm_password |-> None,
      discord_format_details |-> None,
      discord_format_state |-> None ]

\* a variant of is_enabled whose last default is true
is_enabled_default_on(values) ==
    UnwrapOr(UnwrapOr(values.scrobbling, DEFAULT_SCROBBLING).enabled, TRUE)

\* lines 84-98
is_enabled(values) ==
    UnwrapOr(UnwrapOr(values.scrobbling, DEFAULT_SCROBBLING).enabled, FALSE)

\* lines 72-81
playable_to_track(playable) ==
    IF IsSome(playable)
    THEN IF Unwrap(playable)[1] = "Track" THEN Some(Unwrap(playable)[2]) ELSE None
    ELSE None

\* lines 105-109
discord_details(track, scrobbling_cfg) ==
    Format(track, UnwrapOr(scrobbling_cfg.discord_format_details, DEFAULT_FORMAT_DETAILS))

\* lines 110-114: the details template is read here too, with the state default
discord_state(track, scrobbling_cfg) ==
    Format(track, UnwrapOr(scrobbling_cfg.discord_format_details, DEFAULT_FORMAT_STATE))

\* lines 115-116
cover_url(track) ==
    IF IsSome(track.cover_url) THEN <<Unwrap(track.cover_url)>> ELSE DISCORD_IMAGE_LOGO

\* a variant of discord_enabled that reads the master flag
discord_enabled_reads_master(scrobbling_cfg) == UnwrapOr(scrobbling_cfg.enabled, TRUE)

\* line 118
discord_enabled(scrobbling_cfg) == UnwrapOr(scrobbling_cfg.discord_enabled, TRUE)

\* lines 132-142 and 154-163: the activity the closure builds; details is given
\* discord_state and state is given discord_details
activity(track, scrobbling_cfg, small_image, small_text, start) ==
    [ details |-> discord_state(track, scrobbling_cfg),
      state |-> discord_details(track, scrobbling_cfg),
      large_image |-> cover_url(track),
      large_text |-> <<"ncspot">>,
      small_image |-> small_image,
      small_text |-> small_text,
      start |-> start ]

\* line 131: unix_now - elapsed_secs on u64.  When elapsed_secs is the larger,
\* a build with overflow checks panics and one without wraps.
start_timestamps(unix_now, elapsed_secs) ==
    IF elapsed_secs <= unix_now
    THEN {Some(unix_now - elapsed_secs)}
    ELSE {None, Some((unix_now - elapsed_secs + U64_MODULUS) % U64_MODULUS)}

\* lines 121-144; a clock set before the epoch panics at line 128, and None
\* among the start timestamps is the panic of the subtraction
on_playing(track, scrobbling_cfg, progress) ==
    IF ~discord_enabled(scrobbling_cfg) THEN {Returned(<<>>)}
    ELSE {Panicked(<<>>)}
         \cup UNION { UNION { IF start = None THEN {Panicked(<<>>)}
                              ELSE Expect("discord", "set_activity",
                                       <<activity(track, scrobbling_cfg,
                                             DISCORD_IMAGE_PLAY, DISCORD_PLAYING, start)>>)
                              : start \in start_timestamps(unix_now, progress) }
                      : unix_now \in 0..MaxNow }

\* lines 145-148
on_stopped == Expect("discord", "clear_activity", <<>>)

\* lines 149-165; the call goes to a clone of the client
on_paused(track, scrobbling_cfg) ==
    IF ~discord_enabled(scrobbling_cfg) THEN {Returned(<<>>)}
    ELSE Expect("discord", "set_activity",
             <<activity(track, scrobbling_cfg,
                   DISCORD_IMAGE_PAUSE, DISCORD_PAUSED, None)>>)

\* a variant of scrub whose album fallback is applied only together with the
\* artist fallback
scrub_joint_fallback(track) ==
    [ artist |-> Join(IF track.artists = <<>> THEN <<UNKNOWN_ARTIST>> ELSE track.artists, ", "),
      track |-> <<track.title>>,
      album |-> IF track.artists = <<>>
                THEN <<UnwrapOr(track.album, UNKNOWN_ALBUM)>>
                ELSE IF IsSome(track.album) THEN <<Unwrap(track.album)>> ELSE <<>> ]

\* lines 168-176: Scrobble::new(artist, track, album)
scrub(track) ==
    [ artist |-> Join(IF track.artists = <<>> THEN <<UNKNOWN_ARTIST>> ELSE track.artists, ", "),
      track |-> <<track.title>>,
      album |-> <<UnwrapOr(track.album, UNKNOWN_ALBUM)>> ]

\* a variant of on_finished_track that skips a track without artists instead
\* of naming the unknown artist
on_finished_track_skips_unknown(track, scrob) ==
    IF IsSome(scrob) /\ track.artists # <<>>
    THEN Expect("lastfm", "scrobble", <<scrub(track)>>)
    ELSE {Returned(<<>>)}

\* lines 166-183
on_finished_track(track, scrob) ==
    IF IsSome(scrob)
    THEN Expect("lastfm", "scrobble", <<scrub(track)>>)
    ELSE {Returned(<<>>)}

\* a variant of dispatch whose FinishedTrack arm has the guard of Playing and
\* Paused
dispatch_finished_gated(state, track, scrobbling_cfg, scrob, progress) ==
    CASE state = "Playing"       -> on_playing(track, scrobbling_cfg, progress)
      [] state = "Stopped"       -> on_stopped
      [] state = "Paused"        -> on_paused(track, scrobbling_cfg)
      [] state = "FinishedTrack" -> IF ~discord_enabled(scrobbling_cfg)
                                    THEN {Returned(<<>>)}
                                    ELSE on_finished_track(track, scrob)

\* a variant of dispatch that clears the presence before it scrobbles
dispatch_finished_clears(state, track, scrobbling_cfg, scrob, progress) ==
    CASE state = "Playing"       -> on_playing(track, scrobbling_cfg, progress)
      [] state = "Stopped"       -> on_stopped
      [] state = "Paused"        -> on_paused(track, scrobbling_cfg)
      [] state = "FinishedTrack" ->
            { [ calls |-> <<Call("discord", "clear_activity", <<>>, TRUE)>> \o r.calls,
                outcome |-> r.outcome ] : r \in on_finished_track(track, scrob) }

\* a variant of dispatch whose Stopped arm has the guard of its neighbours
dispatch_stop_gated(state, track, scrobbling_cfg, scrob, progress) ==
    CASE state = "Playing"       -> on_playing(track, scrobbling_cfg, progress)
      [] state = "Stopped"       -> IF ~discord_enabled(scrobbling_cfg)
                                    THEN {Returned(<<>>)} ELSE on_stopped
      [] state = "Paused"        -> on_paused(track, scrobbling_cfg)
      [] state = "FinishedTrack" -> on_finished_track(track, scrob)

\* a variant of dispatch that scrobbles when playback stops, too
dispatch_scrobble_on_stop(state, track, scrobbling_cfg, scrob, progress) ==
    CASE state = "Playing"       -> on_playing(track, scrobbling_cfg, progress)
      [] state = "Stopped"       -> on_finished_track(track, scrob)
      [] state = "Paused"        -> on_paused(track, scrobbling_cfg)
      [] state = "FinishedTrack" -> on_finished_track(track, scrob)

\* lines 120-184: the match on the event
dispatch(state, track, scrobbling_cfg, scrob, progress) ==
    CASE state = "Playing"       -> on_playing(track, scrobbling_cfg, progress)
      [] state = "Stopped"       -> on_stopped
      [] state = "Paused"        -> on_paused(track, scrobbling_cfg)
      [] state = "FinishedTrack" -> on_finished_track(track, scrob)

\* line 104: a track and a scrobbling section, or nothing is done
has_track_and_cfg(values, playable) ==
    IsSome(playable_to_track(playable)) /\ IsSome(values.scrobbling)

\* a variant of update_scrobbler that handles Stopped before it looks at the
\* playable
update_scrobbler_stop_first(values, scrob, state, playable, progress) ==
    IF ~is_enabled(values) THEN {Returned(<<>>)}
    ELSE IF state = "Stopped" THEN on_stopped
    ELSE IF ~has_track_and_cfg(values, playable) THEN {Returned(<<>>)}
    ELSE dispatch(state, Unwrap(playable_to_track(playable)),
                  Unwrap(values.scrobbling), scrob, progress)

\* the ways one call of update_scrobbler can end: the calls issued and the outcome
update_scrobbler(values, scrob, state, playable, progress) ==
    IF ~is_enabled(values) THEN {Returned(<<>>)}
    ELSE IF ~has_track_and_cfg(values, playable) THEN {Returned(<<>>)}
    ELSE dispatch(state, Unwrap(playable_to_track(playable)),
                  Unwrap(values.scrobbling), scrob, progress)

----------------------------------------------------------------------------
(* The state machine *)

\* what `last` holds for an operation other than update_scrobbler
Op(op, outcome) ==
    [ op |-> op, state |-> "-", playable |-> None, progress |-> 0, outcome |-> outcome ]

Init ==
    /\ cfg_values \in ConfigValues
    /\ cfg_state = NO_SESSION
    /\ pc = "down"
    /\ scrobbler = None
    /\ last = Op("none", "returned")
    /\ calls = <<>>
    /\ pw_session = None

\* the history of password logins after an operation that issued cs
NotePassword(cs) ==
    pw_session' = IF IsSome(password_login(cs)) THEN password_login(cs) ELSE pw_session

\* lines 27-41: ScrobblerManager::new.  set_lastfm runs on a manager without
\* scrobbler; if it panics no manager exists, otherwise discord.start() is
\* called and its result is dropped.
New ==
    /\ pc = "down"
    /\ \E r \in set_lastfm(cfg_values, cfg_state, None) :
          /\ cfg_state' = r.state
          /\ scrobbler' = r.scrobbler
          /\ NotePassword(r.calls)
          /\ IF r.outcome = "panicked"
             THEN /\ pc' = "panicked"
                  /\ calls' = r.calls
                  /\ last' = Op("new", "panicked")
             ELSE \E started \in BOOLEAN :
                  /\ pc' = "running"
                  /\ calls' = Append(r.calls, Call("discord", "start", <<>>, started))
                  /\ last' = Op("new", "returned")
    /\ UNCHANGED cfg_values

\* lines 43-70: set_lastfm is public and may be called again on the manager
SetLastfm ==
    /\ pc = "running"
    /\ \E r \in set_lastfm(cfg_values, cfg_state, scrobbler) :
          /\ cfg_state' = r.state
          /\ scrobbler' = r.scrobbler
          /\ NotePassword(r.calls)
          /\ calls' = r.calls
          /\ pc' = IF r.outcome = "panicked" THEN "panicked" ELSE "running"
          /\ last' = Op("set_lastfm", r.outcome)
    /\ UNCHANGED cfg_values

\* lines 83-186: one player event
UpdateScrobbler(state, playable, progress) ==
    /\ pc = "running"
    /\ \E r \in update_scrobbler(cfg_values, scrobbler, state, playable, progress) :
          /\ calls' = r.calls
          /\ pc' = IF r.outcome = "panicked" THEN "panicked" ELSE "running"
          /\ last' = [ op |-> "update_scrobbler", state |-> state, playable |-> playable,
                       progress |-> progress, outcome |-> r.outcome ]
    /\ UNCHANGED <<cfg_values, cfg_state, scrobbler, pw_session>>

\* the process ends, by quitting or by the panic: the manager is gone, the
\* persisted state stays
Exit ==
    /\ pc \in {"running", "panicked"}
    /\ pc' = "down"
    /\ scrobbler' = None
    /\ last' = Op("none", "returned")
    /\ calls' = <<>>
    /\ UNCHANGED <<cfg_values, cfg_state, pw_session>>

\* between two runs the user sets another Last.fm username in the settings
ConfigureUsername(username) ==
    /\ pc = "down"
    /\ IsSome(cfg_values.scrobbling)
    /\ Unwrap(cfg_values.scrobbling).lastfm_username # username
    /\ cfg_values' = [scrobbling |->
           Some([Unwrap(cfg_values.scrobbling) EXCEPT !.lastfm_username = username])]
    /\ pw_session' = None
    /\ UNCHANGED <<cfg_state, pc, scrobbler, last, calls>>

Next ==
    \/ New
    \/ SetLastfm
    \/ \E state \in PlayerEvents, playable \in Opt(Playables), progress \in 0..MaxProgress :
          UpdateScrobbler(state, playable, progress)
    \/ Exit
    \/ \E username \in Opt(Usernames) : ConfigureUsername(username)

Spec == Init /\ [][Next]_vars

----------------------------------------------------------------------------
(* What the properties read off the state *)

\* the operation that ran last is update_scrobbler, handling event e
Handled(e) == last.op = "update_scrobbler" /\ last.state = e

\* the operation that ran last is a run of the authentication resolver
ResolverRan == last.op \in {"new", "set_lastfm"}

\* the calls of the last operation named fn
CallsOf(fn) == {i \in 1..Len(calls) : calls[i].fn = fn}

Count(fn) == Cardinality(CallsOf(fn))

\* the calls of the last operation on the presence connector
PresenceCalls == {i \in 1..Len(calls) : calls[i].conn = "discord"}

\* the settings as written, read without the operators of the model
HasSection == cfg_values.scrobbling # <<>>

Section == cfg_values.scrobbling[1]

MasterEnabled == HasSection /\ Section.enabled = <<TRUE>>

PresenceDisabled == HasSection /\ Section.discord_enabled = <<FALSE>>

AllFourConfigured ==
    /\ HasSection
    /\ Section.lastfm_api_key # <<>>
    /\ Section.lastfm_api_secret # <<>>
    /\ Section.lastfm_username # <<>>
    /\ Section.lastfm_password # <<>>

\* the playable of the last event is a track
IsTrack == last.playable # <<>> /\ last.playable[1][1] = "Track"

TheTrack == last.playable[1][2]

\* the payload of the set_activity call of the last operation
Payload == calls[CHOOSE i \in CallsOf("set_activity") : TRUE].args[1]

----------------------------------------------------------------------------
(* C1 *)

\* C1, as claimed: every Stopped event handled while the master flag is true
\* issues exactly one clear_activity call, whatever presence_enabled and
\* whatever the playable (track, non-track or none).
C1_StoppedAlwaysClears ==
    (Handled("Stopped") /\ MasterEnabled) => Count("clear_activity") = 1

\* C1, amended: a Stopped event handled while the master flag is true issues
\* exactly one clear_activity call and no other call when the playable is a
\* track, whatever presence_enabled, and no call when the playable is not a
\* track.
C1_StoppedTrackClearsOnce ==
    (Handled("Stopped") /\ MasterEnabled) =>
        IF IsTrack
        THEN Count("clear_activity") = 1 /\ Len(calls) = 1
        ELSE calls = <<>>

\* a Stopped event on a track with presence reporting switched off that
\* issued its clear_activity
C1_Witness ==
    /\ Handled("Stopped") /\ MasterEnabled /\ PresenceDisabled /\ IsTrack
    /\ Count("clear_activity") = 1

----------------------------------------------------------------------------
(* C2 *)

\* C2, as claimed: when set_activity or clear_activity fails during a
\* Playing, Paused or Stopped event, update_scrobbler returns normally and the
\* manager goes on to the next event.
C2_PresenceFailureReturns ==
    ( /\ last.op = "update_scrobbler"
      /\ \E i \in PresenceCalls : ~calls[i].ok )
    => (last.outcome = "returned" /\ pc = "running")

----------------------------------------------------------------------------
(* C3 *)

\* C3, as claimed: when the password authentication fails in set_lastfm run
\* from new, construction completes: the manager exists without scrobbler,
\* nothing is stored and the presence connector is started.
C3_AuthFailureConstructs ==
    ( /\ last.op = "new"
      /\ \E i \in CallsOf("authenticate_with_password") : ~calls[i].ok )
    => /\ last.outcome = "returned"
       /\ pc = "running"
       /\ scrobbler = <<>>
       /\ Count("start") = 1

----------------------------------------------------------------------------
(* C4 *)

\* C4: with the master flag false, unset, or the scrobbling section absent,
\* update_scrobbler returns without any connector call, for every event,
\* playable and presence_enabled.
C4_DisabledNoCalls ==
    (last.op = "update_scrobbler" /\ ~MasterEnabled) =>
        (calls = <<>> /\ last.outcome = "returned")

\* a Stopped event on a track, with a scrobbler and presence reporting on and
\* the master flag set to false, that issued nothing
C4_Witness ==
    /\ Handled("Stopped") /\ IsTrack /\ scrobbler # <<>>
    /\ HasSection /\ Section.enabled = <<FALSE>> /\ Section.discord_enabled = <<TRUE>>
    /\ calls = <<>>

----------------------------------------------------------------------------
(* C5 *)

\* C5: with the master flag true, a FinishedTrack event issues a scrobble,
\* exactly one, if and only if the manager holds a scrobbler and the playable
\* is a track; otherwise it issues none.
C5_FinishedTrackScrobblesIff ==
    (Handled("FinishedTrack") /\ MasterEnabled) =>
        /\ Count("scrobble") = (IF scrobbler # <<>> /\ IsTrack THEN 1 ELSE 0)
        /\ Len(calls) = Count("scrobble")

\* a FinishedTrack event on a track without album that was scrobbled
C5_Witness ==
    /\ Handled("FinishedTrack") /\ MasterEnabled /\ scrobbler # <<>> /\ IsTrack
    /\ TheTrack.album = <<>>
    /\ Count("scrobble") = 1

----------------------------------------------------------------------------
(* C6 *)

\* C6: a scrobble is issued only by update_scrobbler handling FinishedTrack:
\* no other operation and no Playing, Paused or Stopped event issues one.
C6_ScrobbleOnlyOnFinished ==
    Count("scrobble") > 0 => Handled("FinishedTrack")

\* a Stopped event on a track, with a scrobbler at hand, that issued a call
\* and no scrobble
C6_Witness ==
    /\ Handled("Stopped") /\ MasterEnabled /\ scrobbler # <<>> /\ IsTrack
    /\ calls # <<>> /\ Count("scrobble") = 0

----------------------------------------------------------------------------
(* C7 *)

\* the persisted session holds a key and the user u
StoredFor(u) ==
    cfg_state.lastfm_session_key # <<>> /\ cfg_state.lastfm_session_user = <<u>>

\* C7: a run of the resolver with API key, secret, username and password
\* configured authenticates with the stored session key, and without password
\* call, when a session is stored for the configured username; otherwise it
\* attempts the password authentication, once, and makes no session call.
C7_SessionOrPassword ==
    [][ (ResolverRan' /\ AllFourConfigured) =>
          IF StoredFor(Section.lastfm_username[1])
          THEN /\ Count("authenticate_with_password")' = 0
               /\ Count("authenticate_with_session_key")' = 1
               /\ calls'[1].args = <<cfg_state.lastfm_session_key[1]>>
          ELSE /\ Count("authenticate_with_password")' = 1
               /\ Count("authenticate_with_session_key")' = 0
               /\ calls'[1].args[1] = Section.lastfm_username[1] ]_vars

\* a construction that authenticated with the stored session key
C7_Witness ==
    /\ last.op = "new" /\ AllFourConfigured
    /\ Count("authenticate_with_session_key") = 1
    /\ Count("authenticate_with_password") = 0

----------------------------------------------------------------------------
(* C8 *)

\* C8: once a password authentication has succeeded and its session is
\* stored, and while the configured username stays the same, no later run of
\* the resolver authenticates with the password; with the four credentials
\* configured it authenticates with the stored session key.
C8_NoSecondPasswordLogin ==
    [][ (pw_session # <<>> /\ ResolverRan') =>
          /\ Count("authenticate_with_password")' = 0
          /\ AllFourConfigured =>
                /\ Count("authenticate_with_session_key")' = 1
                /\ calls'[1].args = <<cfg_state.lastfm_session_key[1]>>
                /\ UNCHANGED cfg_state ]_vars

\* a construction, after a restart, that reused the session a password login
\* stored
C8_Witness ==
    /\ pw_session # <<>> /\ last.op = "new"
    /\ Count("authenticate_with_session_key") = 1
    /\ pw_session = cfg_state.lastfm_session_user

----------------------------------------------------------------------------
(* C9 *)

\* C9: a Playing or Paused event issues no call when the playable is not a
\* track and no set_activity when presence_enabled is false; set_activity is
\* issued only by a Playing or Paused event with the master flag on, presence
\* reporting not switched off and a track playing.
C9_PresenceOnlyForEnabledTrack ==
    /\ ((Handled("Playing") \/ Handled("Paused")) /\ ~IsTrack) => PresenceCalls = {}
    /\ ((Handled("Playing") \/ Handled("Paused")) /\ PresenceDisabled) =>
           Count("set_activity") = 0
    /\ Count("set_activity") > 0 =>
           /\ Handled("Playing") \/ Handled("Paused")
           /\ MasterEnabled /\ ~PresenceDisabled /\ IsTrack

\* a Paused event on a track, master flag on, presence switched off, that
\* issued nothing
C9_Witness ==
    /\ Handled("Paused") /\ MasterEnabled /\ PresenceDisabled /\ IsTrack
    /\ calls = <<>>

----------------------------------------------------------------------------
(* C10 *)

\* C10, as claimed: with neither template configured the activity sent on
\* Playing or Paused has details = the track rendered with "%artists / %album"
\* and state = the track rendered with "%title"; with a state template
\* configured, state is the track rendered with that template.
C10_DefaultTemplates ==
    ( /\ Handled("Playing") \/ Handled("Paused")
      /\ Count("set_activity") = 1 ) =>
        /\ ( /\ Section.discord_format_details = <<>>
             /\ Section.discord_format_state = <<>> ) =>
               /\ Payload.details = Format(TheTrack, <<"%artists", " / ", "%album">>)
               /\ Payload.state = Format(TheTrack, <<"%title">>)
        /\ Section.discord_format_state # <<>> =>
               Payload.state = Format(TheTrack, Section.discord_format_state[1])

----------------------------------------------------------------------------
(* C11 *)

\* the record of the scrobble call of the last operation
Scrobbled == calls[CHOOSE i \in CallsOf("scrobble") : TRUE].args[1]

\* C11: the record submitted is (artist, title, album): artist is "Unknown
\* Artist" when the track has no artists and the artist names joined by ", "
\* otherwise; album is "Unknown Album" when the track has no album and the
\* track's album otherwise; each fallback applies on its own; the title is the
\* track's.
C11_ScrobbleRecord ==
    (Handled("FinishedTrack") /\ Count("scrobble") = 1) =>
        /\ Scrobbled.artist = (IF TheTrack.artists = <<>>
                               THEN <<"Unknown Artist">>
                               ELSE Join(TheTrack.artists, ", "))
        /\ Scrobbled.album = (IF TheTrack.album = <<>>
                              THEN <<"Unknown Album">>
                              ELSE <<TheTrack.album[1]>>)
        /\ Scrobbled.track = <<TheTrack.title>>

\* a track with an artist and no album, scrobbled under its artist and the
\* unknown album
C11_Witness ==
    /\ Handled("FinishedTrack") /\ Count("scrobble") = 1
    /\ TheTrack.artists = <<"Ann">> /\ TheTrack.album = <<>>
    /\ Scrobbled = [artist |-> <<"Ann">>, track |-> <<"Song">>, album |-> <<"Unknown Album">>]

----------------------------------------------------------------------------
(* C12 *)

\* C12, as claimed: the activity sent on Playing at wall time T with elapsed
\* time e carries the start timestamp T - e, for every e, also e > T; the
\* activity sent on Paused carries no start timestamp.
C12_StartIsNowMinusElapsed ==
    /\ (Handled("Playing") /\ Count("set_activity") = 1) =>
           \E T \in 0..MaxNow : Payload.start = <<T - last.progress>>
    /\ (Handled("Paused") /\ Count("set_activity") = 1) => Payload.start = <<>>

----------------------------------------------------------------------------
(* C13 *)

\* the last operation made a password authentication that succeeded
PasswordSucceeded ==
    \E i \in CallsOf("authenticate_with_password") : calls[i].ok

\* C13: the persisted session changes only in a run of the resolver whose
\* password authentication succeeded, and that run stores the returned key and
\* the configured username together; every other step (a run that reuses the
\* session, fails or lacks credentials, and every event) leaves it as it was.
C13_SessionWrittenOnlyOnPasswordLogin ==
    [][ /\ cfg_state' # cfg_state => (ResolverRan' /\ PasswordSucceeded')
        /\ (ResolverRan' /\ PasswordSucceeded') =>
              /\ cfg_state'.lastfm_session_key = <<scrobbler'[1].session_key>>
              /\ cfg_state'.lastfm_session_user = Section.lastfm_username
              /\ cfg_state' # cfg_state ]_vars

\* a password login for bob that stored key sk2 and bob
C13_Witness ==
    /\ ResolverRan /\ PasswordSucceeded
    /\ cfg_state = [lastfm_session_key |-> <<"sk2">>, lastfm_session_user |-> <<"bob">>]

----------------------------------------------------------------------------
(* C14 *)

\* C14, as claimed: when the scrobble fails on a FinishedTrack event,
\* update_scrobbler returns normally and the manager goes on to later events.
C14_ScrobbleFailureReturns ==
    ( /\ Handled("FinishedTrack")
      /\ \E i \in CallsOf("scrobble") : ~calls[i].ok )
    => (last.outcome = "returned" /\ pc = "running")

----------------------------------------------------------------------------
(* C15 *)

\* C15: when the playable is not a track (another variant, or none),
\* update_scrobbler issues no call at all, whatever the event: no
\* set_activity, no clear_activity, no scrobble.
C15_NonTrackIgnored ==
    (last.op = "update_scrobbler" /\ ~IsTrack) =>
        (calls = <<>> /\ last.outcome = "returned")

\* a Stopped event on an episode, master flag on, scrobbler at hand, that
\* issued nothing
C15_Witness ==
    /\ Handled("Stopped") /\ MasterEnabled /\ scrobbler # <<>>
    /\ last.playable = << <<"Episode">> >>
    /\ calls = <<>>

----------------------------------------------------------------------------
(* C16 *)

\* API key and secret are both absent, or username and password are
MissingCredentials ==
    \/ ~HasSection
    \/ Section.lastfm_api_key = <<>> /\ Section.lastfm_api_secret = <<>>
    \/ Section.lastfm_username = <<>> /\ Section.lastfm_password = <<>>

\* C16: a run of the resolver with API key and secret both absent, or
\* username and password both absent, makes no authentication call, returns
\* without error, leaves the persisted session as it was and leaves the
\* manager without scrobbler.
C16_MissingCredentialsNoLogin ==
    [][ (ResolverRan' /\ MissingCredentials) =>
          /\ Count("authenticate_with_password")' = 0
          /\ Count("authenticate_with_session_key")' = 0
          /\ last'.outcome = "returned"
          /\ cfg_state' = cfg_state
          /\ scrobbler' = <<>> ]_vars

\* a construction with API key and secret, without username and password, that
\* only started the presence connector
C16_Witness ==
    /\ last.op = "new" /\ HasSection
    /\ Section.lastfm_api_key # <<>> /\ Section.lastfm_api_secret # <<>>
    /\ Section.lastfm_username = <<>> /\ Section.lastfm_password = <<>>
    /\ Len(calls) = 1 /\ Count("start") = 1
    /\ scrobbler = <<>>

----------------------------------------------------------------------------
(* C17 *)

\* C17, as claimed: a construction resolves the authentication and then calls
\* start on the presence connector exactly once, as its last call, whatever
\* the master flag, and completes whether or not start succeeds.
C17_ConstructionStartsPresence ==
    last.op = "new" =>
        /\ Count("start") = 1
        /\ calls[Len(calls)].fn = "start"
        /\ last.outcome = "returned"
        /\ pc = "running"

----------------------------------------------------------------------------
(* C18 *)

\* C18: with the master flag true, presence_enabled false, a scrobbler and a
\* track, FinishedTrack issues exactly one scrobble and no presence call, and
\* Playing and Paused issue no call.
C18_PresenceFlagDoesNotGateScrobble ==
    (MasterEnabled /\ PresenceDisabled /\ scrobbler # <<>> /\ IsTrack) =>
        /\ Handled("FinishedTrack") =>
              (Count("scrobble") = 1 /\ PresenceCalls = {} /\ Len(calls) = 1)
        /\ (Handled("Playing") \/ Handled("Paused")) => calls = <<>>

\* a FinishedTrack event scrobbled with presence reporting switched off
C18_Witness ==
    /\ Handled("FinishedTrack") /\ MasterEnabled /\ PresenceDisabled
    /\ scrobbler # <<>> /\ IsTrack
    /\ Count("scrobble") = 1 /\ calls[1].ok

----------------------------------------------------------------------------
(* C19 *)

\* C19: while a manager exists (new has returned), a scrobbler is present only
\* if API key, secret, username and password are all configured and the
\* persisted session holds a key and the configured username; with any of the
\* four absent there is no scrobbler and the resolver made no authentication
\* call.
C19_ScrobblerImpliesStoredSession ==
    pc = "running" =>
        /\ scrobbler # <<>> =>
              (AllFourConfigured /\ StoredFor(Section.lastfm_username[1]))
        /\ ~AllFourConfigured =>
              /\ scrobbler = <<>>
              /\ ResolverRan =>
                    /\ Count("authenticate_with_password") = 0
                    /\ Count("authenticate_with_session_key") = 0

\* a manager constructed with a password login, holding the scrobbler and the
\* session stored for the configured user
C19_Witness ==
    /\ pc = "running" /\ last.op = "new" /\ scrobbler # <<>>
    /\ PasswordSucceeded
    /\ AllFourConfigured /\ cfg_state.lastfm_session_user = Section.lastfm_username

----------------------------------------------------------------------------
(* C20 *)

\* C20: update_scrobbler leaves the persisted session key and user as they
\* were, leaves the scrobbler present or absent as it was, and issues at most
\* one connector call per event.
C20_UpdateChangesNothing ==
    [][ last'.op = "update_scrobbler" =>
          /\ cfg_state' = cfg_state
          /\ (scrobbler' = <<>>) <=> (scrobbler = <<>>)
          /\ Len(calls') <= 1 ]_vars

\* a FinishedTrack event that issued its one call, with a session stored and a
\* scrobbler present
C20_Witness ==
    /\ Handled("FinishedTrack") /\ Len(calls) = 1
    /\ cfg_state.lastfm_session_key # <<>> /\ scrobbler # <<>>

====
